---- MODULE Spec2Model ----
(***************************************************************************)
(* The data engine of the prompt library (src-tauri/src/lib.rs): the three *)
(* SQLite tables, the tauri commands that write them (upsert_prompt,       *)
(* delete_prompt, log_prompt_usage, import_prompts_json), the export, and  *)
(* the pure helpers they use (trim, normalize_tags, encode/decode of the   *)
(* tag blob, the f64 running mean).                                        *)
(*                                                                         *)
(* Text is a sequence of one-character strings; an Option is a sequence of *)
(* length 0 (None) or 1 (Some).  A timestamp is a reading of the wall      *)
(* clock, an instant (an integer); two readings may be the same instant.   *)
(***************************************************************************)
EXTENDS Integers, Sequences, FiniteSets, TLC

\* Bounds of the model.
MaxOps == 3
MaxRatings == 7
MaxTags == 3

---------------------------------------------------------------------------
\* Text helpers

None == << >>

Some(x) == << x >>

IsSome(o) == Len(o) = 1

UnwrapOr(o, dflt) == IF Len(o) = 1 THEN o[1] ELSE dflt

WhiteSpace == {" "}

RECURSIVE TrimStart(_)
TrimStart(s) ==
  IF s # << >> /\ Head(s) \in WhiteSpace THEN TrimStart(Tail(s)) ELSE s

RECURSIVE TrimEnd(_)
TrimEnd(s) ==
  IF s # << >> /\ s[Len(s)] \in WhiteSpace
    THEN TrimEnd(SubSeq(s, 1, Len(s) - 1))
    ELSE s

\* str::trim
Trim(s) == TrimEnd(TrimStart(s))

AsciiUpper ==
  << "A", "B", "C", "D", "E", "F", "G", "H", "I", "J", "K", "L", "M",
     "N", "O", "P", "Q", "R", "S", "T", "U", "V", "W", "X", "Y", "Z" >>

AsciiLower ==
  << "a", "b", "c", "d", "e", "f", "g", "h", "i", "j", "k", "l", "m",
     "n", "o", "p", "q", "r", "s", "t", "u", "v", "w", "x", "y", "z" >>

LowerChar(c) ==
  IF \E i \in 1..26 : AsciiUpper[i] = c
    THEN AsciiLower[CHOOSE i \in 1..26 : AsciiUpper[i] = c]
    ELSE c

\* str::to_lowercase
ToLowercase(s) == [i \in 1..Len(s) |-> LowerChar(s[i])]

---------------------------------------------------------------------------
\* Tags

\* A variant of the loop of lib.rs 134-143 that keeps the entry as it was given.
RECURSIVE NormalizeFromUntrimmed(_, _, _)
NormalizeFromUntrimmed(tags, seen, normalized) ==
  IF tags = << >> THEN normalized
  ELSE LET trimmed == Trim(Head(tags))
           lower_key == ToLowercase(trimmed)
       IN  IF trimmed = << >> THEN NormalizeFromUntrimmed(Tail(tags), seen, normalized)
           ELSE IF lower_key \in seen
             THEN NormalizeFromUntrimmed(Tail(tags), seen, normalized)
             ELSE NormalizeFromUntrimmed(Tail(tags), seen \cup {lower_key},
                                         Append(normalized, Head(tags)))

\* The loop of lib.rs 134-143
RECURSIVE NormalizeFrom(_, _, _)
NormalizeFrom(tags, seen, normalized) ==
  IF tags = << >> THEN normalized
  ELSE LET trimmed == Trim(Head(tags))
           lower_key == ToLowercase(trimmed)
       IN  IF trimmed = << >> THEN NormalizeFrom(Tail(tags), seen, normalized)
           ELSE IF lower_key \in seen
             THEN NormalizeFrom(Tail(tags), seen, normalized)
             ELSE NormalizeFrom(Tail(tags), seen \cup {lower_key},
                                Append(normalized, trimmed))

normalize_tags(tags) == NormalizeFrom(tags, {}, << >>)

\* serde_json's string escape, for the characters of the model's alphabet
JsonEscapeChar(c) ==
  CASE c = "\"" -> << "\\", "\"" >>
    [] c = "\\" -> << "\\", "\\" >>
    [] OTHER -> << c >>

RECURSIVE JsonString(_)
JsonString(s) ==
  IF s = << >> THEN << >> ELSE JsonEscapeChar(Head(s)) \o JsonString(Tail(s))

RECURSIVE JsonItems(_)
JsonItems(tags) ==
  IF tags = << >> THEN << >>
  ELSE << "\"" >> \o JsonString(Head(tags)) \o << "\"" >>
       \o (IF Tail(tags) = << >> THEN << >> ELSE << "," >>)
       \o JsonItems(Tail(tags))

\* serde_json::to_string of a Vec<String>: ["a","b"]
encode_tags(tags) == << "[" >> \o JsonItems(tags) \o << "]" >>

\* The parser of the blob: state "out" between strings, "in" inside one.
RECURSIVE DecodeFrom(_, _, _, _)
DecodeFrom(blob, mode, cur, acc) ==
  IF blob = << >> THEN acc
  ELSE LET c == Head(blob) IN
    IF mode = "out"
      THEN IF c = "\"" THEN DecodeFrom(Tail(blob), "in", << >>, acc)
           ELSE DecodeFrom(Tail(blob), "out", cur, acc)
      ELSE IF c = "\\"
        THEN DecodeFrom(Tail(Tail(blob)), "in", Append(cur, blob[2]), acc)
        ELSE IF c = "\""
          THEN DecodeFrom(Tail(blob), "out", << >>, Append(acc, cur))
          ELSE DecodeFrom(Tail(blob), "in", Append(cur, c), acc)

\* serde_json::from_str::<Vec<String>> of a blob written by encode_tags
decode_tags(blob) == DecodeFrom(blob, "out", << >>, << >>)

---------------------------------------------------------------------------
(***************************************************************************)
(* f64 arithmetic of the running mean.  A value v that is 0 or at least 1  *)
(* and below 2^11 is held exactly as the integer v * 2^52, written in      *)
(* three limbs << l2, l1, l0 >> of 21 bits (v * 2^52 = l2 * 2^42 +         *)
(* l1 * 2^21 + l0), so that no intermediate exceeds 31 bits.  Every        *)
(* operation computes the exact result and rounds it to the 53 significant *)
(* bits of an IEEE-754 double, ties to even.                               *)
(***************************************************************************)
LimbBase == 2^21

MantissaTop == 2^10

F64OfInt(n) == << n * MantissaTop, 0, 0 >>

RECURSIVE BitLen(_)
BitLen(n) == IF n = 0 THEN 0 ELSE 1 + BitLen(n \div 2)

\* The double nearest to (q + rem/n) * 2^-52, where 0 <= rem < n.
F64Round(q, rem, n) ==
  LET top    == BitLen(q[1])
      s      == IF top > 11 THEN top - 11 ELSE 0
      unit   == 2^s
      low    == q[3] % unit
      kept   == q[3] \div unit
      up     == IF s = 0
                  THEN 2 * rem > n \/ (2 * rem = n /\ kept % 2 = 1)
                  ELSE \/ 2 * low > unit
                       \/ (2 * low = unit /\ (rem > 0 \/ kept % 2 = 1))
      r0     == (kept + (IF up THEN 1 ELSE 0)) * unit
      r1     == q[2] + r0 \div LimbBase
      r2     == q[1] + r1 \div LimbBase
  IN  << r2, r1 % LimbBase, r0 % LimbBase >>

\* x * (n as f64)
F64MulInt(x, n) ==
  LET p0 == x[3] * n
      p1 == x[2] * n + p0 \div LimbBase
      p2 == x[1] * n + p1 \div LimbBase
  IN  F64Round(<< p2, p1 % LimbBase, p0 % LimbBase >>, 0, 1)

\* x + (n as f64)
F64AddInt(x, n) == F64Round(<< x[1] + n * MantissaTop, x[2], x[3] >>, 0, 1)

\* x / (n as f64)
F64DivInt(x, n) ==
  LET t1 == (x[1] % n) * LimbBase + x[2]
      t0 == (t1 % n) * LimbBase + x[3]
  IN  F64Round(<< x[1] \div n, t1 \div n, t0 \div n >>, t0 % n, n)

\* -x
F64Neg(x) == << -x[1], -x[2], -x[3] >>

(***************************************************************************)
(* i64 arithmetic of score_count.  A value is held in two's complement as  *)
(* three limbs << c2, c1, c0 >> (c2 * 2^42 + c1 * 2^21 + c0), c2 signed in *)
(* -2^21 .. 2^21 - 1 and c1, c0 in 0 .. 2^21 - 1.                          *)
(***************************************************************************)
I64Max == << LimbBase - 1, LimbBase - 1, LimbBase - 1 >>

I64Min == << -LimbBase, 0, 0 >>

\* The i64 of an integer n with -2^21 < n < 2^21
I64OfInt(n) == IF n >= 0 THEN << 0, 0, n >> ELSE << -1, LimbBase - 1, LimbBase + n >>

I64Negative(c) == c[1] < 0

\* c + 1 in a build without overflow checks: it wraps from I64Max to I64Min
I64WrappingSucc(c) ==
  IF c = I64Max THEN I64Min
  ELSE IF c[3] + 1 < LimbBase THEN << c[1], c[2], c[3] + 1 >>
  ELSE IF c[2] + 1 < LimbBase THEN << c[1], c[2] + 1, 0 >>
  ELSE << c[1] + 1, 0, 0 >>

\* Counts whose product with a limb stays within 31 bits
I64IsSmall(c) == c[1] = 0 /\ c[2] = 0 /\ c[3] < MantissaTop

\* A variant of lib.rs 547 that forgets to weight the old mean by its count.
NextAvgUnweighted(score_avg, score_count, score) ==
  F64DivInt(F64AddInt(score_avg, score), score_count[3] + 1)

(***************************************************************************)
(* lib.rs 546-547:                                                         *)
(*   ((score_avg * score_count as f64) + score as f64) / next_count as f64 *)
(* For a count below 2^10 the three operations are computed limb by limb.  *)
(* The other counts of the model lie within 2^8 of an end of i64, with     *)
(* 1 <= |score_avg| < 2^11: there score_count as f64 and next_count as f64 *)
(* are 2^63 or -2^63, the product is score_avg scaled by that power of two *)
(* and absorbs the score (at most 5, below half a unit in the last place), *)
(* so the quotient is score_avg, negated when the two counts differ in     *)
(* sign.                                                                   *)
(***************************************************************************)
NextAvg(score_avg, score_count, score) ==
  IF I64IsSmall(score_count)
    THEN F64DivInt(F64AddInt(F64MulInt(score_avg, score_count[3]), score),
                   score_count[3] + 1)
    ELSE IF I64Negative(score_count) = I64Negative(I64WrappingSucc(score_count))
      THEN score_avg
      ELSE F64Neg(score_avg)

---------------------------------------------------------------------------
(***************************************************************************)
(* The database file.  db.prompts, db.prompt_versions and db.usage_logs    *)
(* are the rows of the three tables of initialize_database; db.seq is      *)
(* sqlite_sequence, the last id AUTOINCREMENT gave out in each table.      *)
(* foreign_keys is ON on every connection: a child row needs its prompt,   *)
(* and deleting a prompt deletes its children.  now is the last reading of *)
(* the clock, last the call answered in the step just taken (NoAnswer if   *)
(* it answered none), ops the number of calls made.  calls[c] is the       *)
(* command in flight on connection c.  Every command opens its own         *)
(* connection (open_connection, lib.rs 156-162) to the one database file,  *)
(* and outside import_prompts_json no transaction encloses its statements: *)
(* each statement commits on its own, and the statements of two commands   *)
(* in flight run in any order.  The transaction of an import holds the     *)
(* write lock of the file from its first INSERT to its end: until then no  *)
(* other connection writes, and every other connection reads the database  *)
(* without the batch.                                                      *)
(***************************************************************************)
VARIABLES db, now, last, ops, calls

vars == << db, now, last, ops, calls >>

CallIds == { 1, 2 }

IdleCall == [ pc |-> "idle" ]

NoCalls == [ c \in CallIds |-> IdleCall ]

\* No call is answered.
NoAnswer == [ op |-> "none", res |-> "Ok", n |-> 0 ]

EmptyDb ==
  [ prompts |-> {}, prompt_versions |-> {}, usage_logs |-> {},
    seq |-> [ prompts |-> 0, prompt_versions |-> 0, usage_logs |-> 0 ] ]

PromptIds(d) == { p.id : p \in d.prompts }

HasPrompt(d, id) == id \in PromptIds(d)

PromptRow(d, id) == CHOOSE p \in d.prompts : p.id = id

VersionsOf(d, id) == { v \in d.prompt_versions : v.prompt_id = id }

LogsOf(d, id) == { u \in d.usage_logs : u.prompt_id = id }

\* INSERT INTO prompts (...): lib.rs 471-488, 656-673
InsertPromptRow(d, title, content, tags_json, is_favorite, score_avg, score_count, created_at) ==
  LET id == d.seq.prompts + 1 IN
  [ d EXCEPT
      !.prompts = @ \cup { [ id |-> id, title |-> title, content |-> content,
                             tags |-> tags_json, is_favorite |-> is_favorite,
                             score_avg |-> score_avg, score_count |-> score_count,
                             created_at |-> created_at, updated_at |-> created_at ] },
      !.seq.prompts = id ]

\* Connection::last_insert_rowid after an INSERT INTO prompts
LastPromptId(d) == d.seq.prompts

\* The FOREIGN KEY(prompt_id) REFERENCES prompts(id) of both child tables
ForeignKeyOk(d, prompt_id) == HasPrompt(d, prompt_id)

\* INSERT INTO prompt_versions (...): lib.rs 276-293, 682-709
InsertVersionRow(d, prompt_id, content, change_note, created_at) ==
  LET id == d.seq.prompt_versions + 1 IN
  [ d EXCEPT
      !.prompt_versions = @ \cup { [ id |-> id, prompt_id |-> prompt_id,
                                     content |-> content, change_note |-> change_note,
                                     created_at |-> created_at ] },
      !.seq.prompt_versions = id ]

\* A variant of the INSERT that also refreshes the prompt's updated_at.
InsertUsageLogRowTouching(d, prompt_id, rating, used_at) ==
  LET id == d.seq.usage_logs + 1 IN
  [ d EXCEPT
      !.usage_logs = @ \cup { [ id |-> id, prompt_id |-> prompt_id,
                                rating |-> rating, used_at |-> used_at ] },
      !.seq.usage_logs = id,
      !.prompts = { IF p.id = prompt_id THEN [ p EXCEPT !.updated_at = used_at ]
                    ELSE p : p \in @ } ]

\* INSERT INTO usage_logs (...): lib.rs 522-530
InsertUsageLogRow(d, prompt_id, rating, used_at) ==
  LET id == d.seq.usage_logs + 1 IN
  [ d EXCEPT
      !.usage_logs = @ \cup { [ id |-> id, prompt_id |-> prompt_id,
                                rating |-> rating, used_at |-> used_at ] },
      !.seq.usage_logs = id ]

\* UPDATE prompts SET title, content, tags, is_favorite, updated_at: lib.rs 440-456
UpdatePromptRow(d, id, title, content, tags_json, is_favorite, updated_at) ==
  [ d EXCEPT !.prompts =
      { IF p.id = id
          THEN [ p EXCEPT !.title = title, !.content = content, !.tags = tags_json,
                          !.is_favorite = is_favorite, !.updated_at = updated_at ]
          ELSE p : p \in @ } ]

\* UPDATE prompts SET score_avg, score_count, updated_at: lib.rs 548-557
UpdateScoreRow(d, id, score_avg, score_count, updated_at) ==
  [ d EXCEPT !.prompts =
      { IF p.id = id
          THEN [ p EXCEPT !.score_avg = score_avg, !.score_count = score_count,
                          !.updated_at = updated_at ]
          ELSE p : p \in @ } ]

\* A variant of the DELETE with foreign_keys left off: the children stay.
DeletePromptRowNoCascade(d, id) ==
  [ d EXCEPT !.prompts = { p \in @ : p.id # id } ]

\* DELETE FROM prompts WHERE id = ?1, with ON DELETE CASCADE: lib.rs 505, 187, 197
DeletePromptRow(d, id) ==
  [ d EXCEPT !.prompts = { p \in @ : p.id # id },
             !.prompt_versions = { v \in @ : v.prompt_id # id },
             !.usage_logs = { u \in @ : u.prompt_id # id } ]

\* What a command returns with the database it leaves behind.
Outcome(d, res) == [ db |-> d, res |-> res ]

---------------------------------------------------------------------------
\* upsert_prompt: lib.rs 398-499, what its statements compute

\* A variant of lib.rs 459-463, 491-495 that always stores the default note.
VersionNoteDefaultOnly(note, dflt) == dflt

\* lib.rs 459-463, 491-495: the trimmed note, or the default if it is empty
VersionNote(note, dflt) == IF note = << >> THEN dflt ELSE note

ContentUpdated == << "c", "o", "n", "t", "e", "n", "t", " ", "u", "p", "d", "a", "t", "e", "d" >>

InitialVersion == << "i", "n", "i", "t", "i", "a", "l", " ", "v", "e", "r", "s", "i", "o", "n" >>

\* A variant of the checks of lib.rs 412-418 that does not trim.
ValidPromptUntrimmed(title, content) == title # << >> /\ content # << >>

\* lib.rs 412-418
ValidPrompt(title, content) == Trim(title) # << >> /\ Trim(content) # << >>

\* A variant of the test of lib.rs 458 that ignores the change note.
AppendsVersionContentOnly(old_content, content, note) == old_content # content

\* A variant of the test of lib.rs 458 that ignores the change of content.
AppendsVersionNoteOnly(old_content, content, note) == note # << >>

\* lib.rs 458
AppendsVersion(old_content, content, note) == old_content # content \/ note # << >>

\* A variant of lib.rs 427-438 that takes a missing row for one of empty content.
SelectContentOrDefault(d, prompt_id) ==
  IF HasPrompt(d, prompt_id) THEN Some(PromptRow(d, prompt_id).content) ELSE Some(<< >>)

\* lib.rs 427-434: SELECT content FROM prompts WHERE id = ?1, optional
SelectContent(d, prompt_id) ==
  IF HasPrompt(d, prompt_id) THEN Some(PromptRow(d, prompt_id).content) ELSE None

---------------------------------------------------------------------------
\* delete_prompt: lib.rs 501-508

delete_prompt(d, id, fail) ==
  IF fail \in {"open", "delete"} THEN Outcome(d, "StorageError")
  ELSE Outcome(DeletePromptRow(d, id), "Ok")

---------------------------------------------------------------------------
\* log_prompt_usage: lib.rs 510-561, its range check

\* A variant of the range check of lib.rs 513 without its upper end.
ValidRatingNoUpper(rating) == rating = << >> \/ rating[1] >= 1

\* lib.rs 512-516
ValidRating(rating) == rating = << >> \/ (rating[1] >= 1 /\ rating[1] <= 5)

---------------------------------------------------------------------------
\* list_prompts: lib.rs 295-349

\* SQLite's LIKE: % matches any run of characters, _ any one character, every
\* other character itself, ASCII letters without regard to case.  No ESCAPE.
RECURSIVE Like(_, _)
Like(str, pattern) ==
  IF pattern = << >> THEN str = << >>
  ELSE IF Head(pattern) = "%"
    THEN \E k \in 0..Len(str) : Like(SubSeq(str, k + 1, Len(str)), Tail(pattern))
  ELSE IF str = << >> THEN FALSE
  ELSE IF Head(pattern) = "_" THEN Like(Tail(str), Tail(pattern))
  ELSE /\ LowerChar(Head(str)) = LowerChar(Head(pattern))
       /\ Like(Tail(str), Tail(pattern))

\* lib.rs 312-315, 323-326: the trimmed parameter, if it is not empty
TrimmedFilter(param) ==
  IF IsSome(param) /\ Trim(param[1]) # << >> THEN Some(Trim(param[1])) ELSE None

\* lib.rs 316-320: title LIKE ? OR content LIKE ? OR tags LIKE ?, with %term%
SearchMatches(p, search_term) ==
  LET pattern == << "%" >> \o search_term \o << "%" >>
  IN  Like(p.title, pattern) \/ Like(p.content, pattern) \/ Like(p.tags, pattern)

\* lib.rs 327-328: tags LIKE ?, with %"tag_filter"%
TagMatches(p, tag_filter) ==
  Like(p.tags, << "%", "\"" >> \o tag_filter \o << "\"", "%" >>)

\* x < y for two doubles of the model
F64Less(x, y) ==
  \/ x[1] < y[1]
  \/ x[1] = y[1] /\ x[2] < y[2]
  \/ x[1] = y[1] /\ x[2] = y[2] /\ x[3] < y[3]

\* lib.rs 331-335: whether the ORDER BY puts row a strictly before row b
ListedBefore(sort_by, a, b) ==
  IF sort_by = Some("score")
    THEN \/ F64Less(b.score_avg, a.score_avg)
         \/ a.score_avg = b.score_avg /\ a.updated_at > b.updated_at
  ELSE IF sort_by = Some("created") THEN a.created_at > b.created_at
  ELSE a.updated_at > b.updated_at

\* The orders the ORDER BY allows for a set of rows
RECURSIVE ListOrders(_, _)
ListOrders(rows, sort_by) ==
  IF rows = {} THEN { << >> }
  ELSE UNION { { << p >> \o rest : rest \in ListOrders(rows \ {p}, sort_by) } :
               p \in { q \in rows : \A o \in rows : ~ListedBefore(sort_by, o, q) } }

\* row_to_prompt: lib.rs 209-222
row_to_prompt(p) ==
  [ id |-> p.id, title |-> p.title, content |-> p.content,
    tags |-> decode_tags(p.tags), is_favorite |-> (p.is_favorite = 1),
    score_avg |-> p.score_avg, score_count |-> p.score_count,
    created_at |-> p.created_at, updated_at |-> p.updated_at ]

\* The lists list_prompts may return.
list_prompts(d, search, tag, sort_by) ==
  LET search_term == TrimmedFilter(search)
      tag_filter == TrimmedFilter(tag)
      rows == { p \in d.prompts :
                  /\ IsSome(search_term) => SearchMatches(p, search_term[1])
                  /\ IsSome(tag_filter) => TagMatches(p, tag_filter[1]) }
  IN  { [ i \in 1..Len(order) |-> row_to_prompt(order[i]) ] :
        order \in ListOrders(rows, sort_by) }

---------------------------------------------------------------------------
\* export_prompts_json: lib.rs 563-608

\* Whether row a comes before row b under ORDER BY created_at DESC, id DESC
VersionBefore(a, b) ==
  a.created_at > b.created_at \/ (a.created_at = b.created_at /\ a.id > b.id)

RECURSIVE SortVersions(_)
SortVersions(rows) ==
  IF rows = {} THEN << >>
  ELSE LET first == CHOOSE a \in rows : \A b \in rows \ {a} : VersionBefore(a, b)
       IN  << first >> \o SortVersions(rows \ {first})

\* fetch_prompt_versions: lib.rs 242-274
fetch_prompt_versions(d, prompt_id) == SortVersions(VersionsOf(d, prompt_id))

\* The orders ORDER BY updated_at DESC allows: rows of equal updated_at come in any order.
RECURSIVE PromptOrders(_)
PromptOrders(rows) ==
  IF rows = {} THEN { << >> }
  ELSE UNION { { << p >> \o rest : rest \in PromptOrders(rows \ {p}) } :
               p \in { q \in rows : \A o \in rows : q.updated_at >= o.updated_at } }

\* lib.rs 585-589
ExportVersionItem(v) ==
  [ content |-> v.content, change_note |-> v.change_note, created_at |-> v.created_at ]

\* lib.rs 583-600, with row_to_prompt (209-222)
ExportPromptItem(d, p) ==
  LET versions == fetch_prompt_versions(d, p.id) IN
  [ title |-> p.title, content |-> p.content, tags |-> decode_tags(p.tags),
    is_favorite |-> (p.is_favorite = 1),
    score_avg |-> p.score_avg, score_count |-> p.score_count,
    versions |-> [ i \in 1..Len(versions) |-> ExportVersionItem(versions[i]) ] ]

\* The snapshots export_prompts_json may return, one per admissible row order.
export_prompts_json(d) ==
  { [ i \in 1..Len(order) |-> ExportPromptItem(d, order[i]) ] :
    order \in PromptOrders(d.prompts) }

\* The exported text read back by serde into ImportPromptItem: every field present.
ParseExportedVersion(v) ==
  [ content |-> v.content, change_note |-> Some(v.change_note),
    created_at |-> Some(v.created_at) ]

ParseExportedItem(e) ==
  [ title |-> e.title, content |-> e.content, tags |-> Some(e.tags),
    is_favorite |-> Some(e.is_favorite), score_avg |-> Some(e.score_avg),
    score_count |-> Some(e.score_count),
    versions |-> Some([ i \in 1..Len(e.versions) |-> ParseExportedVersion(e.versions[i]) ]) ]

ParseExported(snapshot) ==
  [ shape |-> "Wrapped",
    prompts |-> [ i \in 1..Len(snapshot) |-> ParseExportedItem(snapshot[i]) ] ]

---------------------------------------------------------------------------
\* import_prompts_json: lib.rs 610-719, what its statements compute

ImportedVersion == << "i", "m", "p", "o", "r", "t", "e", "d", " ", "v", "e", "r", "s", "i", "o", "n" >>

Imported == << "i", "m", "p", "o", "r", "t", "e", "d" >>

\* lib.rs 649: score_count.unwrap_or(0).max(0)
ClampCount(c) == IF I64Negative(c) THEN I64OfInt(0) ELSE c

\* A variant of the test of lib.rs 680-682 that does not trim.
SkipsVersionUntrimmed(version) == version.content = << >>

\* lib.rs 680-682: the version is skipped
SkipsVersion(version) == Trim(version.content) = << >>

\* lib.rs 678-682: the versions left when the loop has passed those it skips next
RECURSIVE SkippedVersionsDropped(_)
SkippedVersionsDropped(version_items) ==
  IF version_items # << >> /\ SkipsVersion(Head(version_items))
    THEN SkippedVersionsDropped(Tail(version_items))
    ELSE version_items

\* lib.rs 683-695: INSERT INTO prompt_versions of a supplied version in the
\* transaction's view w; t is the reading of the clock (line 692), taken for a
\* version without created_at.
ImportVersionRow(w, prompt_id, version, t) ==
  InsertVersionRow(w, prompt_id, version.content,
                   UnwrapOr(version.change_note, ImportedVersion),
                   UnwrapOr(version.created_at, t))

\* lib.rs 700-710: the version made of the prompt's own content
ImportOwnVersionRow(w, prompt_id, item, t) ==
  InsertVersionRow(w, prompt_id, item.content, Imported, t)

\* A variant of the test of lib.rs 641-644 that looks at the title only.
SkipsItemTitleOnly(item) == Trim(item.title) = << >>

\* lib.rs 641-644: the item is skipped
SkipsItem(item) == Trim(item.title) = << >> \/ Trim(item.content) = << >>

\* lib.rs 630-644: the items left when the loop has passed those it skips next
RECURSIVE SkippedItemsDropped(_)
SkippedItemsDropped(items) ==
  IF items # << >> /\ SkipsItem(Head(items))
    THEN SkippedItemsDropped(Tail(items))
    ELSE items

\* lib.rs 641, 646-674: INSERT INTO prompts of an item in the transaction's view w
ImportPromptRow(w, item, created_at) ==
  LET score_count == ClampCount(UnwrapOr(item.score_count, I64OfInt(0)))
      score_avg == IF score_count = I64OfInt(0) THEN F64OfInt(0)
                   ELSE UnwrapOr(item.score_avg, F64OfInt(0))
  IN  InsertPromptRow(w, Trim(item.title), item.content,
                      encode_tags(normalize_tags(UnwrapOr(item.tags, << >>))),
                      IF UnwrapOr(item.is_favorite, FALSE) THEN 1 ELSE 0,
                      score_avg, score_count, created_at)

\* lib.rs 676-698 run to its end with every reading of the clock at t
RECURSIVE ImportVersions(_, _, _, _, _)
ImportVersions(w, prompt_id, version_items, t, inserted_version) ==
  LET rest == SkippedVersionsDropped(version_items) IN
  IF rest = << >> THEN [ db |-> w, inserted |-> inserted_version ]
  ELSE ImportVersions(ImportVersionRow(w, prompt_id, Head(rest), t), prompt_id,
                      Tail(rest), t, TRUE)

\* lib.rs 630-713 run to its end with every reading of the clock at t
RECURSIVE ImportItems(_, _, _)
ImportItems(w, items, t) ==
  LET rest == SkippedItemsDropped(items) IN
  IF rest = << >> THEN w
  ELSE LET item == Head(rest)
           w1 == ImportPromptRow(w, item, t)
           prompt_id == LastPromptId(w1)
           vs == ImportVersions(w1, prompt_id, UnwrapOr(item.versions, << >>), t, FALSE)
       IN  ImportItems(IF vs.inserted THEN vs.db
                       ELSE ImportOwnVersionRow(vs.db, prompt_id, item, t),
                       Tail(rest), t)

\* A variant that commits what the transaction did before it failed.
RollbackKeepsWork(before, work) == work

\* The transaction dropped without commit (lib.rs 624-626, 673, 695, 709, 715):
\* the database is what it was when the transaction began.
Rollback(before, work) == before

\* The database an import of a parsed payload leaves that ran from its first
\* statement to COMMIT with no failure, no statement of another connection in
\* between and the clock at t.
import_prompts_json(d, payload, t) == ImportItems(d, payload.prompts, t)

---------------------------------------------------------------------------
\* The inputs the commands are called with.

TargetIds == {1, 2}

SaveInput(id, title, content, tags, is_favorite, change_note) ==
  [ id |-> id, title |-> title, content |-> content, tags |-> tags,
    is_favorite |-> is_favorite, change_note |-> change_note ]

TagsA == << << "A" >>, << " ", "a" >>, << "b" >> >>

CreatedInput == SaveInput(None, << "t" >>, << "a" >>, TagsA, TRUE, None)

SavePromptInputs ==
  { CreatedInput,
    SaveInput(None, << " " >>, << "a" >>, << >>, FALSE, None),
    SaveInput(None, << "t" >>, << " " >>, << >>, FALSE, Some(<< "n" >>)),
    SaveInput(None, << "t" >>, << "b" >>, << >>, FALSE, Some(<< " ", "n" >>)),
    SaveInput(Some(1), << "t" >>, << "a" >>, TagsA, TRUE, None),
    SaveInput(Some(1), << " ", "u", " " >>, << "b" >>, << >>, FALSE, None),
    SaveInput(Some(1), << "t" >>, << "a" >>, TagsA, TRUE, Some(<< " " >>)),
    SaveInput(Some(1), << "t" >>, << "a" >>, TagsA, TRUE, Some(<< " ", "n" >>)),
    SaveInput(Some(1), << >>, << "a" >>, << >>, FALSE, None),
    SaveInput(Some(1), << "t" >>, << " ", " " >>, << >>, FALSE, None),
    SaveInput(Some(2), << "t" >>, << "b" >>, << >>, FALSE, None) }

\* The storage calls of upsert_prompt that can fail.
UpsertFaults == { "open", "select", "update", "insert_prompt", "insert_version", "fetch" }

Ratings == { None, Some(0), Some(4), Some(6) }

LogUsageInputs == { [ prompt_id |-> id, rating |-> r ] : id \in TargetIds, r \in Ratings }

\* The storage calls of log_prompt_usage that can fail, and the overflow check of
\* score_count + 1.
LogFaults == { "open", "insert_log", "select_score", "overflow_check", "update_score" }

NoFaults == { }

DeleteFails == { "-", "open", "delete" }

VersionItem(content, note, created_at) ==
  [ content |-> content, change_note |-> note, created_at |-> created_at ]

PromptItem(title, content, versions) ==
  [ title |-> title, content |-> content, tags |-> None, is_favorite |-> None,
    score_avg |-> None, score_count |-> None, versions |-> versions ]

ItemPlain == PromptItem(<< "t" >>, << "a" >>, None)

ItemTwoVersions ==
  PromptItem(<< "u" >>, << "b" >>,
             Some(<< VersionItem(<< "b" >>, None, Some(0)),
                     VersionItem(<< "a" >>, Some(<< "n" >>), Some(0)) >>))

ItemNoContent == PromptItem(<< "t" >>, << " " >>, None)

ItemMixedVersions ==
  PromptItem(<< "u" >>, << "b" >>,
             Some(<< VersionItem(<< " " >>, None, None),
                     VersionItem(<< "b" >>, None, Some(0)) >>))

ItemRated ==
  [ title |-> << "u", " " >>, content |-> << "a" >>,
    tags |-> Some(<< << "b" >>, << "B" >> >>), is_favorite |-> Some(TRUE),
    score_avg |-> Some(F64OfInt(4)), score_count |-> Some(I64OfInt(2)),
    versions |-> Some(<< VersionItem(<< " " >>, None, None) >>) ]

ImportPayloads ==
  { [ shape |-> "Malformed", prompts |-> << >> ],
    [ shape |-> "Flat", prompts |-> << ItemNoContent >> ],
    [ shape |-> "Flat", prompts |-> << ItemPlain >> ],
    [ shape |-> "Flat", prompts |-> << ItemTwoVersions >> ],
    [ shape |-> "Flat", prompts |-> << ItemMixedVersions >> ],
    [ shape |-> "Wrapped", prompts |-> << ItemNoContent, ItemRated >> ],
    [ shape |-> "Wrapped", prompts |-> << ItemTwoVersions, ItemMixedVersions >> ] }

\* The storage calls of import_prompts_json that can fail
ImportFaults == { "open", "begin", "insert", "commit" }

\* What the wall clock may have done since the last reading: stayed at the same
\* instant, or moved on.
ClockSteps == { 0, 1 }

\* A clock that has moved on at every reading
ClockMovesOn == { 1 }

\* A clock that may also have been set back
ClockSetBack == { -1, 0, 1 }

\* now_iso(), lib.rs 126-128: Utc::now(), a reading of the wall clock; now is the
\* last reading.  A clock that was set back reads an instant before it.
Readings(steps) == { now + d : d \in steps }

---------------------------------------------------------------------------
(***************************************************************************)
(* The commands as steps of the application, one step per statement.       *)
(* A command begins on a free connection (what it does up to its first     *)
(* reading of the clock or of the database), then runs its statements and  *)
(* its further readings of the clock one by one, and answers with its last *)
(* statement or at the first one that fails.  last is the call answered in *)
(* the step: the command, its input, the storage call that failed in it    *)
(* ("-" when the storage did not fail), its result and its number n.       *)
(* The call in flight keeps with its locals the database it began on       *)
(* (before) and whether it has run alone since: no statement of another    *)
(* connection has written between its begin and now.                       *)
(***************************************************************************)
InFlight(c) == calls[c].pc # "idle"

\* Connections are alike: a command begins on the first one that is free.
FreeConn(c) == ~InFlight(c) /\ \A k \in CallIds : k < c => InFlight(k)

\* The other calls after a statement of connection c
Others(c) ==
  [ k \in CallIds |->
      IF k # c /\ InFlight(k) THEN [ calls[k] EXCEPT !.alone = @ /\ db' = db ]
      ELSE calls[k] ]

\* The command on connection c goes on as call.
Goes(c, call) ==
  /\ calls' = [ Others(c) EXCEPT ![c] = call ]
  /\ last' = NoAnswer

\* The command on connection c returns, answer being the record of the call.
Answers(c, answer) ==
  /\ calls' = [ Others(c) EXCEPT ![c] = IdleCall ]
  /\ last' = answer

\* The transaction of an import in flight has written (its first INSERT, lib.rs
\* 656): it holds the write lock of the database file until it ends.
HoldsWriteLock(k) ==
  InFlight(k) /\ calls[k].op = "import_prompts_json" /\ calls[k].locked

\* Connection c can write: no other connection holds the write lock.  A
\* statement that writes waits for the lock (the busy timeout of the connection).
CanWrite(c) == \A k \in CallIds \ {c} : ~HoldsWriteLock(k)

AnswerOf(call, fail, res) ==
  [ op |-> call.op, input |-> call.input, fail |-> fail, res |-> res, n |-> call.n ]

\* upsert_prompt, lib.rs 403-424: the checks, the timestamp, open_connection
BeginUpsert(c, inputs, faults, steps) ==
  /\ FreeConn(c)
  /\ ops' = ops + 1
  /\ db' = db
  /\ \E input \in inputs :
       LET call == [ op |-> "upsert_prompt", input |-> input, n |-> ops + 1 ] IN
       IF ~ValidPrompt(input.title, input.content)
         THEN /\ now' = now
              /\ Answers(c, AnswerOf(call, "-", "ValidationError"))
         ELSE \E t \in Readings(steps) :
                /\ now' = t
                /\ \/ /\ "open" \in faults
                      /\ Answers(c, AnswerOf(call, "open", "StorageError"))
                   \/ Goes(c, [ pc |-> IF IsSome(input.id) THEN "select_content"
                                       ELSE "insert_prompt",
                                op |-> "upsert_prompt", input |-> input, n |-> ops + 1,
                                faults |-> faults, before |-> db, alone |-> TRUE,
                                timestamp |-> t,
                                prompt_id |-> UnwrapOr(input.id, 0),
                                old_content |-> << >> ])

\* lib.rs 427-438: SELECT content FROM prompts WHERE id = ?1
UpsertSelectContent(c) ==
  /\ calls[c].pc = "select_content"
  /\ UNCHANGED << db, now, ops >>
  /\ LET call == calls[c]
         previous_content == SelectContent(db, call.prompt_id)
     IN  \/ /\ "select" \in call.faults
            /\ Answers(c, AnswerOf(call, "select", "StorageError"))
         \/ /\ ~IsSome(previous_content)
            /\ Answers(c, AnswerOf(call, "-", "NotFoundError"))
         \/ /\ IsSome(previous_content)
            /\ Goes(c, [ call EXCEPT !.pc = "update_prompt",
                                     !.old_content = previous_content[1] ])

\* lib.rs 440-458: UPDATE prompts SET ..., then the test for a new version
UpsertUpdate(c) ==
  /\ calls[c].pc = "update_prompt"
  /\ UNCHANGED << now, ops >>
  /\ LET call == calls[c]
         input == call.input
         note == Trim(UnwrapOr(input.change_note, << >>))
     IN  \/ /\ "update" \in call.faults
            /\ db' = db
            /\ Answers(c, AnswerOf(call, "update", "StorageError"))
         \/ /\ CanWrite(c)
            /\ db' = UpdatePromptRow(db, call.prompt_id, Trim(input.title), input.content,
                                     encode_tags(normalize_tags(input.tags)),
                                     IF input.is_favorite THEN 1 ELSE 0, call.timestamp)
            /\ Goes(c, [ call EXCEPT !.pc =
                           IF AppendsVersion(call.old_content, input.content, note)
                             THEN "insert_version" ELSE "fetch_prompt" ])

\* lib.rs 471-490: INSERT INTO prompts, last_insert_rowid
UpsertInsertPrompt(c) ==
  /\ calls[c].pc = "insert_prompt"
  /\ UNCHANGED << now, ops >>
  /\ LET call == calls[c]
         input == call.input
     IN  \/ /\ "insert_prompt" \in call.faults
            /\ db' = db
            /\ Answers(c, AnswerOf(call, "insert_prompt", "StorageError"))
         \/ /\ CanWrite(c)
            /\ db' = InsertPromptRow(db, Trim(input.title), input.content,
                                     encode_tags(normalize_tags(input.tags)),
                                     IF input.is_favorite THEN 1 ELSE 0,
                                     F64OfInt(0), I64OfInt(0), call.timestamp)
            /\ Goes(c, [ call EXCEPT !.pc = "insert_version",
                                     !.prompt_id = LastPromptId(db') ])

\* lib.rs 459-464, 491-496: insert_prompt_version (276-293)
UpsertInsertVersion(c) ==
  /\ calls[c].pc = "insert_version"
  /\ UNCHANGED << now, ops >>
  /\ LET call == calls[c]
         input == call.input
         note == Trim(UnwrapOr(input.change_note, << >>))
         dflt == IF IsSome(input.id) THEN ContentUpdated ELSE InitialVersion
     IN  \/ /\ "insert_version" \in call.faults
            /\ db' = db
            /\ Answers(c, AnswerOf(call, "insert_version", "StorageError"))
         \/ /\ CanWrite(c)
            /\ ~ForeignKeyOk(db, call.prompt_id)
            /\ db' = db
            /\ Answers(c, AnswerOf(call, "-", "StorageError"))
         \/ /\ CanWrite(c)
            /\ ForeignKeyOk(db, call.prompt_id)
            /\ db' = InsertVersionRow(db, call.prompt_id, input.content,
                                      VersionNote(note, dflt), call.timestamp)
            /\ Goes(c, [ call EXCEPT !.pc = "fetch_prompt" ])

\* lib.rs 467-468, 498: fetch_prompt (224-240), an error if the row is gone
UpsertFetch(c) ==
  /\ calls[c].pc = "fetch_prompt"
  /\ UNCHANGED << db, now, ops >>
  /\ LET call == calls[c] IN
     \/ /\ "fetch" \in call.faults
        /\ Answers(c, AnswerOf(call, "fetch", "StorageError"))
     \/ /\ ~HasPrompt(db, call.prompt_id)
        /\ Answers(c, AnswerOf(call, "-", "ReadBackError"))
     \/ /\ HasPrompt(db, call.prompt_id)
        /\ Answers(c, AnswerOf(call, "-", "Ok"))

\* delete_prompt, lib.rs 501-508: one statement
DeletePrompt(c, ids, fails) ==
  /\ FreeConn(c)
  /\ ops' = ops + 1
  /\ now' = now
  /\ \E id \in ids, fail \in fails :
       LET out == delete_prompt(db, id, fail) IN
       /\ fail # "-" \/ CanWrite(c)
       /\ db' = out.db
       /\ Answers(c, [ op |-> "delete_prompt", id |-> id, fail |-> fail,
                       res |-> out.res, n |-> ops + 1 ])

\* log_prompt_usage, lib.rs 511-520: the range check, open_connection, now_iso
BeginLogUsage(c, inputs, faults, steps) ==
  /\ FreeConn(c)
  /\ ops' = ops + 1
  /\ db' = db
  /\ \E input \in inputs :
       LET call == [ op |-> "log_prompt_usage", input |-> input, n |-> ops + 1 ] IN
       IF ~ValidRating(input.rating)
         THEN /\ now' = now
              /\ Answers(c, AnswerOf(call, "-", "ValidationError"))
         ELSE \/ /\ "open" \in faults
                 /\ now' = now
                 /\ Answers(c, AnswerOf(call, "open", "StorageError"))
              \/ \E t \in Readings(steps) :
                   /\ now' = t
                   /\ Goes(c, [ pc |-> "insert_log",
                                op |-> "log_prompt_usage", input |-> input, n |-> ops + 1,
                                faults |-> faults, before |-> db, alone |-> TRUE,
                                used_at |-> t, score_avg |-> F64OfInt(0),
                                score_count |-> I64OfInt(0), updated_at |-> t ])

\* lib.rs 522-532: INSERT INTO usage_logs; a call without a rating ends here
InsertUsageLog(c) ==
  /\ calls[c].pc = "insert_log"
  /\ UNCHANGED << now, ops >>
  /\ LET call == calls[c]
         input == call.input
     IN  \/ /\ "insert_log" \in call.faults
            /\ db' = db
            /\ Answers(c, AnswerOf(call, "insert_log", "StorageError"))
         \/ /\ CanWrite(c)
            /\ ~ForeignKeyOk(db, input.prompt_id)
            /\ db' = db
            /\ Answers(c, AnswerOf(call, "-", "StorageError"))
         \/ /\ CanWrite(c)
            /\ ForeignKeyOk(db, input.prompt_id)
            /\ db' = InsertUsageLogRow(db, input.prompt_id, input.rating, call.used_at)
            /\ IF input.rating = None
                 THEN Answers(c, AnswerOf(call, "-", "Ok"))
                 ELSE Goes(c, [ call EXCEPT !.pc = "select_score" ])

\* lib.rs 533-544: SELECT score_avg, score_count FROM prompts WHERE id = ?1
SelectScore(c) ==
  /\ calls[c].pc = "select_score"
  /\ UNCHANGED << db, now, ops >>
  /\ LET call == calls[c]
         id == call.input.prompt_id
     IN  \/ /\ "select_score" \in call.faults
            /\ Answers(c, AnswerOf(call, "select_score", "StorageError"))
         \/ /\ ~HasPrompt(db, id)
            /\ Answers(c, AnswerOf(call, "-", "NotFoundError"))
         \/ /\ HasPrompt(db, id)
            /\ Goes(c, [ call EXCEPT !.pc = "next_score",
                                     !.score_avg = PromptRow(db, id).score_avg,
                                     !.score_count = PromptRow(db, id).score_count ])

\* lib.rs 546-555: next_count and next_avg, then now_iso() among the arguments
\* of the UPDATE.  score_count + 1 at i64::MAX panics in a build with overflow
\* checks ("overflow_check") and wraps in a build without them.
NextScore(c, steps) ==
  /\ calls[c].pc = "next_score"
  /\ UNCHANGED << db, ops >>
  /\ LET call == calls[c] IN
     \/ /\ "overflow_check" \in call.faults
        /\ call.score_count = I64Max
        /\ now' = now
        /\ Answers(c, AnswerOf(call, "overflow_check", "Panic"))
     \/ \E t \in Readings(steps) :
          /\ now' = t
          /\ Goes(c, [ call EXCEPT !.pc = "update_score", !.updated_at = t ])

\* lib.rs 548-560: UPDATE prompts SET score_avg, score_count, updated_at
UpdateScore(c) ==
  /\ calls[c].pc = "update_score"
  /\ UNCHANGED << now, ops >>
  /\ LET call == calls[c]
         next_count == I64WrappingSucc(call.score_count)
         next_avg == NextAvg(call.score_avg, call.score_count, call.input.rating[1])
     IN  \/ /\ "update_score" \in call.faults
            /\ db' = db
            /\ Answers(c, AnswerOf(call, "update_score", "StorageError"))
         \/ /\ CanWrite(c)
            /\ db' = UpdateScoreRow(db, call.input.prompt_id, next_avg, next_count,
                                    call.updated_at)
            /\ Answers(c, AnswerOf(call, "-", "Ok"))

\* export_prompts_json, lib.rs 563-601: open_connection and the rows.  The rows
\* of the SELECT are stepped one by one (query_map, lib.rs 576-581) with the
\* versions of each prompt read in between on the same connection (line 583),
\* so the connection holds its read lock from the first row to the last and
\* reads one state of the database.
ExportPrompts(c) ==
  /\ FreeConn(c)
  /\ ops' = ops + 1
  /\ UNCHANGED << db, now >>
  /\ \E snapshot \in export_prompts_json(db) :
       Goes(c, [ pc |-> "export_answer", op |-> "export_prompts_json", n |-> ops + 1,
                 before |-> db, alone |-> TRUE, snapshot |-> snapshot ])

\* lib.rs 603-607: exported_at is read when the rows are in and the read lock is
\* released; the answer is the rows as they were read.
ExportAnswer(c, steps) ==
  /\ calls[c].pc = "export_answer"
  /\ UNCHANGED << db, ops >>
  /\ \E t \in Readings(steps) :
       /\ now' = t
       /\ Answers(c, [ op |-> "export_prompts_json", res |-> "Ok",
                       snapshot |-> calls[c].snapshot, n |-> calls[c].n ])

ImportAnswer(call, fail, res, imported) ==
  [ op |-> call.op, input |-> call.input, fail |-> fail, res |-> res,
    imported |-> imported, n |-> call.n ]

\* What the transaction of the import in flight sees: its own writes once it has
\* written, the database before.
View(call) == IF call.locked THEN call.w ELSE db

\* import_prompts_json, lib.rs 610-648: the parse, open_connection, BEGIN (which
\* is deferred and takes no lock), the items skipped first and the reading of
\* the clock for the first item that is not skipped.
BeginImport(c, payloads, faults, steps) ==
  /\ FreeConn(c)
  /\ ops' = ops + 1
  /\ db' = db
  /\ \E payload \in payloads :
       LET items == SkippedItemsDropped(payload.prompts)
           call == [ pc |-> "import_prompt", op |-> "import_prompts_json",
                     input |-> payload, n |-> ops + 1, faults |-> faults,
                     before |-> db, alone |-> TRUE, locked |-> FALSE, w |-> EmptyDb,
                     items |-> items, version_items |-> << >>, created_at |-> None,
                     prompt_id |-> 0, k |-> 0, imported_count |-> 0 ]
       IN
       IF payload.shape = "Malformed"
         THEN /\ now' = now
              /\ Answers(c, ImportAnswer(call, << "-", 0 >>, "ParseError", 0))
         ELSE \/ \E fail \in { "open", "begin" } \cap faults :
                   /\ now' = now
                   /\ Answers(c, ImportAnswer(call, << fail, 0 >>, "StorageError", 0))
              \/ /\ items = << >>
                 /\ now' = now
                 /\ Goes(c, [ call EXCEPT !.pc = "import_commit" ])
              \/ /\ items # << >>
                 /\ \E t \in Readings(steps) :
                      /\ now' = t
                      /\ Goes(c, [ call EXCEPT !.created_at = Some(t) ])

\* lib.rs 646-675: INSERT INTO prompts of the item at hand and last_insert_rowid.
\* The first INSERT of the transaction takes the write lock; for a later item the
\* clock is read (line 648) with the lock held, in the step of the INSERT.
ImportInsertPrompt(c, steps) ==
  /\ calls[c].pc = "import_prompt"
  /\ ops' = ops
  /\ LET call == calls[c]
         item == Head(call.items)
     IN  \E t \in IF IsSome(call.created_at) THEN { call.created_at[1] }
                  ELSE Readings(steps) :
           /\ now' = IF IsSome(call.created_at) THEN now ELSE t
           /\ \/ /\ "insert" \in call.faults
                 /\ db' = Rollback(db, View(call))
                 /\ Answers(c, ImportAnswer(call, << "insert", call.k + 1 >>,
                                            "StorageError", 0))
              \/ /\ call.locked \/ CanWrite(c)
                 /\ db' = db
                 /\ LET w1 == ImportPromptRow(View(call), item, t) IN
                    Goes(c, [ call EXCEPT
                                !.pc = "import_version", !.locked = TRUE, !.w = w1,
                                !.prompt_id = LastPromptId(w1), !.k = @ + 1,
                                !.version_items =
                                  SkippedVersionsDropped(UnwrapOr(item.versions, << >>)) ])

\* lib.rs 676-713: the next INSERT INTO prompt_versions of the item at hand: of
\* the next supplied version that is not skipped, or of the prompt's own content
\* when no version was inserted; its created_at is read from the clock where the
\* version supplies none.  After the last one the loop passes the items it skips
\* and goes on to the next item, or to COMMIT.
ImportInsertVersion(c, steps) ==
  /\ calls[c].pc = "import_version"
  /\ ops' = ops
  /\ LET call == calls[c]
         item == Head(call.items)
         own == call.version_items = << >>
         reads == own \/ ~IsSome(Head(call.version_items).created_at)
         left == IF own THEN << >> ELSE SkippedVersionsDropped(Tail(call.version_items))
         items == SkippedItemsDropped(Tail(call.items))
     IN  \E t \in IF reads THEN Readings(steps) ELSE { now } :
           /\ now' = t
           /\ \/ /\ "insert" \in call.faults
                 /\ db' = Rollback(db, View(call))
                 /\ Answers(c, ImportAnswer(call, << "insert", call.k + 1 >>,
                                            "StorageError", 0))
              \/ /\ db' = db
                 /\ LET w1 == IF own THEN ImportOwnVersionRow(call.w, call.prompt_id, item, t)
                              ELSE ImportVersionRow(call.w, call.prompt_id,
                                                    Head(call.version_items), t)
                    IN
                    IF left # << >>
                      THEN Goes(c, [ call EXCEPT !.w = w1, !.k = @ + 1,
                                                 !.version_items = left ])
                      ELSE Goes(c, [ call EXCEPT
                                       !.pc = IF items = << >> THEN "import_commit"
                                              ELSE "import_prompt",
                                       !.w = w1, !.k = @ + 1, !.items = items,
                                       !.version_items = << >>,
                                       !.created_at = None,
                                       !.imported_count = @ + 1 ])

\* lib.rs 715-718: COMMIT publishes what the transaction wrote and gives the
\* write lock back.
ImportCommit(c) ==
  /\ calls[c].pc = "import_commit"
  /\ UNCHANGED << now, ops >>
  /\ LET call == calls[c] IN
     \/ /\ "commit" \in call.faults
        /\ db' = Rollback(db, View(call))
        /\ Answers(c, ImportAnswer(call, << "commit", 0 >>, "StorageError", 0))
     \/ /\ db' = View(call)
        /\ Answers(c, ImportAnswer(call, << "-", 0 >>, "Ok", call.imported_count))

\* list_prompts, lib.rs 295-349
ListPrompts(c, searches, tags, sorts) ==
  /\ FreeConn(c)
  /\ ops' = ops + 1
  /\ db' = db
  /\ now' = now
  /\ \E search \in searches, tag \in tags, sort_by \in sorts :
     \E rows \in list_prompts(db, search, tag, sort_by) :
       Answers(c, [ op |-> "list_prompts", search |-> search, tag |-> tag,
                    sort_by |-> sort_by, res |-> "Ok", rows |-> rows, n |-> ops + 1 ])

Init ==
  /\ db = EmptyDb
  /\ now = 0
  /\ last = NoAnswer
  /\ ops = 0
  /\ calls = NoCalls

Next ==
  \E c \in CallIds :
    \/ ops < MaxOps /\ BeginUpsert(c, SavePromptInputs, UpsertFaults, ClockSteps)
    \/ UpsertSelectContent(c)
    \/ UpsertUpdate(c)
    \/ UpsertInsertPrompt(c)
    \/ UpsertInsertVersion(c)
    \/ UpsertFetch(c)
    \/ ops < MaxOps /\ DeletePrompt(c, TargetIds, DeleteFails)
    \/ ops < MaxOps /\ BeginLogUsage(c, LogUsageInputs, LogFaults, ClockSteps)
    \/ InsertUsageLog(c)
    \/ SelectScore(c)
    \/ NextScore(c, ClockSteps)
    \/ UpdateScore(c)

Spec == Init /\ [][Next]_vars

---------------------------------------------------------------------------
\* Imports and exports, with creates and deletes of the first prompt.

NextTransfer ==
  \E c \in CallIds :
    \/ ops < MaxOps /\ BeginImport(c, ImportPayloads, ImportFaults, ClockSteps)
    \/ ImportInsertPrompt(c, ClockSteps)
    \/ ImportInsertVersion(c, ClockSteps)
    \/ ImportCommit(c)
    \/ ops < MaxOps /\ ExportPrompts(c)
    \/ ExportAnswer(c, ClockSteps)
    \/ ops < MaxOps /\ BeginUpsert(c, { CreatedInput }, NoFaults, ClockSteps)
    \/ UpsertInsertPrompt(c)
    \/ UpsertInsertVersion(c)
    \/ UpsertFetch(c)
    \/ ops < MaxOps /\ DeletePrompt(c, { 1 }, { "-" })

SpecTransfer == Init /\ [][NextTransfer]_vars

---------------------------------------------------------------------------
\* One prompt made by create, then rated usages of it on one connection, each
\* call run to its end before the next one begins.

\* The database after the create of CreatedInput at the clock reading 1
CreatedDb ==
  InsertVersionRow(
    InsertPromptRow(EmptyDb, << "t" >>, << "a" >>, encode_tags(normalize_tags(TagsA)), 1,
                    F64OfInt(0), I64OfInt(0), 1),
    1, << "a" >>, InitialVersion, 1)

InitScoring ==
  /\ db = CreatedDb
  /\ now = 1
  /\ last = [ op |-> "upsert_prompt", input |-> CreatedInput, fail |-> "-",
              res |-> "Ok", n |-> 1 ]
  /\ ops = 1
  /\ calls = NoCalls

ScoringConns == { 1 }

ScoringInputs == { [ prompt_id |-> 1, rating |-> Some(r) ] : r \in 1..5 }

NextScoring ==
  \E c \in ScoringConns :
    \/ /\ PromptRow(db, 1).score_count[3] < MaxRatings
       /\ BeginLogUsage(c, ScoringInputs, NoFaults, ClockMovesOn)
    \/ InsertUsageLog(c)
    \/ SelectScore(c)
    \/ NextScore(c, ClockMovesOn)
    \/ UpdateScore(c)

SpecScoring == InitScoring /\ [][NextScoring]_vars

---------------------------------------------------------------------------
\* Imports that carry score fields, followed by creates, rated usages and deletes.

ScoredItem(score_avg, score_count) ==
  [ title |-> << "t" >>, content |-> << "a" >>, tags |-> None, is_favorite |-> None,
    score_avg |-> score_avg, score_count |-> score_count, versions |-> None ]

ScoredItems ==
  { ScoredItem(None, None),
    ScoredItem(Some(F64OfInt(4)), None),
    ScoredItem(Some(F64OfInt(4)), Some(I64OfInt(0))),
    ScoredItem(Some(F64Neg(F64OfInt(4))), Some(I64OfInt(-1))),
    ScoredItem(Some(F64OfInt(4)), Some(I64OfInt(-1))),
    ScoredItem(Some(F64OfInt(4)), Some(I64OfInt(2))),
    ScoredItem(Some(F64OfInt(4)), Some(I64Max)) }

ScoredPayloads == { [ shape |-> "Flat", prompts |-> << item >> ] : item \in ScoredItems }

ScoredUsages ==
  { [ prompt_id |-> 1, rating |-> r ] : r \in { None, Some(1), Some(5) } }

NextScores ==
  \E c \in CallIds :
    \/ ops < MaxOps /\ BeginImport(c, ScoredPayloads, NoFaults, ClockSteps)
    \/ ImportInsertPrompt(c, ClockSteps)
    \/ ImportInsertVersion(c, ClockSteps)
    \/ ImportCommit(c)
    \/ ops < MaxOps /\ BeginUpsert(c, { CreatedInput }, NoFaults, ClockSteps)
    \/ UpsertInsertPrompt(c)
    \/ UpsertInsertVersion(c)
    \/ UpsertFetch(c)
    \/ ops < MaxOps /\ BeginLogUsage(c, ScoredUsages, { "overflow_check" }, ClockSteps)
    \/ InsertUsageLog(c)
    \/ SelectScore(c)
    \/ NextScore(c, ClockSteps)
    \/ UpdateScore(c)
    \/ ops < MaxOps /\ DeletePrompt(c, { 1 }, { "-" })

SpecScores == Init /\ [][NextScores]_vars

---------------------------------------------------------------------------
\* Prompts created with tags, and listings of them.

TagAi == << "a", "i" >>

TagAiMl == << "a", "i", "-", "m", "l" >>

TagLists ==
  { << >>, << TagAi >>, << TagAiMl >>, << << " ", "A", "I" >>, << "m", "l" >> >> }

TagFilters ==
  { None, Some(<< " " >>), Some(TagAi), Some(<< " ", "a", "i", " " >>),
    Some(<< "A", "I" >>), Some(<< "m", "l" >>), Some(<< "a", "_" >>), Some(<< "%" >>) }

Searches == { None, Some(<< "m" >>) }

SortModes == { None, Some("score"), Some("created") }

TaggedInputs ==
  { SaveInput(None, << "t" >>, << "a" >>, tags, FALSE, None) : tags \in TagLists }

NextListing ==
  \E c \in CallIds :
    \/ ops < MaxOps /\ BeginUpsert(c, TaggedInputs, NoFaults, ClockSteps)
    \/ UpsertInsertPrompt(c)
    \/ UpsertInsertVersion(c)
    \/ UpsertFetch(c)
    \/ ops < MaxOps /\ ListPrompts(c, Searches, TagFilters, SortModes)

SpecListing == Init /\ [][NextListing]_vars

---------------------------------------------------------------------------
\* normalize_tags applied to a list of raw tags, and again to its own result.

RawTags ==
  { << >>, << " " >>, << "A" >>, << "a" >>, << " ", "a", " " >>, << "b" >>, << "B", " " >> }

RECURSIVE TagListsUpTo(_)
TagListsUpTo(n) ==
  IF n = 0 THEN { << >> }
  ELSE TagListsUpTo(n - 1)
       \cup { Append(l, tag) : l \in { m \in TagListsUpTo(n - 1) : Len(m) = n - 1 },
                               tag \in RawTags }

InitNormalize ==
  /\ db = EmptyDb
  /\ now = 0
  /\ ops = 0
  /\ calls = NoCalls
  /\ \E tags \in TagListsUpTo(MaxTags) : last = [ op |-> "input", res |-> tags, n |-> 0 ]

\* normalize_tags of the list at hand: the input first, then the result.
NormalizeTags ==
  /\ ops < 2
  /\ last' = [ op |-> "normalize_tags", input |-> last.res,
               res |-> normalize_tags(last.res), n |-> ops + 1 ]
  /\ ops' = ops + 1
  /\ UNCHANGED << db, now, calls >>

NextNormalize == NormalizeTags

SpecNormalize == InitNormalize /\ [][NextNormalize]_vars

---------------------------------------------------------------------------
\* Rated log_prompt_usage calls on prompt 1 from two connections, and exports
\* beside them.

ConcurrentRatings == { 2, 5 }

ConcurrentInputs == { [ prompt_id |-> 1, rating |-> Some(r) ] : r \in ConcurrentRatings }

NextConcurrent ==
  \E c \in CallIds :
    \/ ops < MaxOps /\ BeginLogUsage(c, ConcurrentInputs, NoFaults, ClockSetBack)
    \/ InsertUsageLog(c)
    \/ SelectScore(c)
    \/ NextScore(c, ClockSetBack)
    \/ UpdateScore(c)
    \/ ops < MaxOps /\ ExportPrompts(c)
    \/ ExportAnswer(c, ClockSetBack)

SpecConcurrent == InitScoring /\ [][NextConcurrent]_vars
---------------------------------------------------------------------------
\* Properties.  In a step property, d is the database the call began on, e the
\* database it leaves when it answers and call the record of the call (last').

\* A call is answered in this step.
Answered == last' # NoAnswer

\* The call that is answered in this step, if it was in flight
AnsweredCalls == { c \in CallIds : InFlight(c) /\ calls[c].n = last'.n }

\* The database the answered call began on
Before == IF AnsweredCalls = {} THEN db ELSE calls[CHOOSE c \in AnsweredCalls : TRUE].before

\* No statement of another connection wrote between the begin of the answered call
\* and its answer.
RanAlone == \A c \in AnsweredCalls : calls[c].alone

\* No call is in flight.
Quiet == \A c \in CallIds : ~InFlight(c)

IsUpsert(call) == call.op = "upsert_prompt"

IsUpdate(call) == call.op = "upsert_prompt" /\ IsSome(call.input.id)

IsLog(call) == call.op = "log_prompt_usage"

IsImport(call) == call.op = "import_prompts_json"

IsDelete(call) == call.op = "delete_prompt"

NumVersions(d, id) == Cardinality(VersionsOf(d, id))

C1Claimed(d, e, call) ==
  (IsUpdate(call) /\ call.res = "Ok") =>
    LET id == call.input.id[1]
        note == call.input.change_note
        grows == \/ PromptRow(d, id).content # call.input.content
                 \/ (IsSome(note) /\ note[1] # << >>)
    IN  NumVersions(e, id) = NumVersions(d, id) + (IF grows THEN 1 ELSE 0)

\* C1 as claimed (for an update that ran alone): it appends one version iff the content differs
\* from the stored content or the supplied change note is a non-empty string.
C1_AsClaimed == [][(Answered /\ RanAlone) => C1Claimed(Before, db', last')]_vars

C1Amended(d, e, call) ==
  (IsUpdate(call) /\ call.res = "Ok") =>
    LET id == call.input.id[1]
        note == call.input.change_note
        grows == \/ PromptRow(d, id).content # call.input.content
                 \/ (IsSome(note) /\ Trim(note[1]) # << >>)
    IN  NumVersions(e, id) = NumVersions(d, id) + (IF grows THEN 1 ELSE 0)

\* C1, amended: every successful update of an existing prompt that ran alone (no
\* write of another connection between its begin and its answer) grows the number of
\* versions of that prompt by exactly one if the new content differs from the
\* stored content or the change note is non-empty after trimming, and by zero
\* otherwise (identical content and no note, or a note of white space only).
C1_VersionPolicy == [][(Answered /\ RanAlone) => C1Amended(Before, db', last')]_vars

\* An update with unchanged content and a note that is not blank has added a version.
C1_Witness ==
  /\ IsUpdate(last) /\ last.res = "Ok"
  /\ last.input.change_note = Some(<< " ", "n" >>)
  /\ \E v \in VersionsOf(db, last.input.id[1]) :
       /\ v.change_note = << "n" >>
       /\ \E w \in VersionsOf(db, last.input.id[1]) : w.id < v.id /\ w.content = v.content

\* What the claim compares of a prompt: listVersions gives the content sequence.
PromptView(d, p) ==
  LET versions == fetch_prompt_versions(d, p.id) IN
  [ title |-> p.title, content |-> p.content, tags |-> decode_tags(p.tags),
    is_favorite |-> (p.is_favorite = 1),
    versions |-> [ i \in 1..Len(versions) |-> versions[i].content ] ]

RECURSIVE Wipe(_, _)
Wipe(d, ids) ==
  IF ids = {} THEN d
  ELSE LET id == CHOOSE i \in ids : TRUE
       IN  Wipe(delete_prompt(d, id, "-").db, ids \ {id})

\* Export in the row order given, wipe, import the snapshot: the i-th prompt of
\* the new store is the i-th exported one.
RoundTripSame(d, order, t) ==
  LET snapshot == [ i \in 1..Len(order) |-> ExportPromptItem(d, order[i]) ]
      wiped == Wipe(d, PromptIds(d))
      e == import_prompts_json(wiped, ParseExported(snapshot), t)
  IN  /\ Cardinality(e.prompts) = Len(order)
      /\ \A i \in 1..Len(order) :
           /\ HasPrompt(e, wiped.seq.prompts + i)
           /\ PromptView(e, PromptRow(e, wiped.seq.prompts + i)) = PromptView(d, order[i])

\* C2: in every reachable store in which each prompt has its versions, exporting,
\* wiping and importing the snapshot gives prompts of the same titles, content,
\* tags, favorite flags and newest-first version content sequences.
C2_RoundTrip ==
  (\A p \in db.prompts : VersionsOf(db, p.id) # {}) =>
    \A order \in PromptOrders(db.prompts) : RoundTripSame(db, order, now)

C3Step(d, e, call) == (IsImport(call) /\ call.res = "StorageError") => e = d

\* C3: an import that ends in a storage failure, at whichever statement, commits
\* nothing of its batch (the step in which it answers leaves the database as it
\* is), and if no other connection wrote between its begin and its answer the
\* database is exactly what it was before the call.
C3_ImportAtomic ==
  [][Answered => /\ C3Step(db, db', last')
                 /\ RanAlone => C3Step(Before, db', last')]_vars

\* The third INSERT of a batch of two valid items has failed: a prompt and a
\* version of it had been inserted before it.
C3_Witness ==
  /\ IsImport(last) /\ last.res = "StorageError"
  /\ last.fail = << "insert", 3 >>
  /\ last.input.prompts = << ItemTwoVersions, ItemMixedVersions >>

C4Step(d, e, call) ==
  (IsLog(call) /\ IsSome(call.input.rating)) =>
    LET id == call.input.prompt_id
        row_stored == e.usage_logs # d.usage_logs
        score_stored == /\ HasPrompt(d, id) /\ HasPrompt(e, id)
                        /\ PromptRow(e, id).score_count = I64WrappingSucc(PromptRow(d, id).score_count)
    IN  row_stored <=> score_stored

\* C4: after a logUsage call with a rating that ran alone, whatever its result, the new usage
\* log row and the updated score are both stored or neither is.
C4_LogAndScoreAtomic == [][(Answered /\ RanAlone) => C4Step(Before, db', last')]_vars

C5Step(d, e, call) ==
  ( /\ IsLog(call) /\ call.fail = "-"
    /\ IsSome(call.input.rating)
    /\ call.input.rating[1] >= 1 /\ call.input.rating[1] <= 5
    /\ ~HasPrompt(d, call.input.prompt_id) ) =>
      /\ call.res = "NotFoundError"
      /\ LogsOf(e, call.input.prompt_id) = {}
      /\ e.prompts = d.prompts

\* C5: a logUsage call with a rating in 1..5 for a prompt id that matches no
\* prompt, with no storage failure and no write of another connection meanwhile, fails with NotFoundError and stores nothing.
C5_RatingMissingPrompt == [][(Answered /\ RanAlone) => C5Step(Before, db', last')]_vars

C6Step(d, e, call) ==
  IsDelete(call) =>
    /\ call.fail = "-" => call.res = "Ok"
    /\ call.res = "Ok" =>
         /\ e.prompts = { p \in d.prompts : p.id # call.id }
         /\ e.prompt_versions = { v \in d.prompt_versions : v.prompt_id # call.id }
         /\ e.usage_logs = { u \in d.usage_logs : u.prompt_id # call.id }
         /\ (~HasPrompt(d, call.id) => e = d)

\* C6: a delete that succeeds removes exactly the prompt of that id, its versions
\* and its usage logs, and leaves every other row as it was; a delete with no
\* storage failure succeeds, also for an id that does not exist, where it
\* changes nothing.
C6_DeleteCascade == [][Answered => C6Step(Before, db', last')]_vars

\* A delete has removed a prompt with its version and its usage log.
C6_Witness ==
  /\ IsDelete(last) /\ last.res = "Ok"
  /\ ~HasPrompt(db, last.id)
  /\ db.seq.usage_logs > 0 /\ db.usage_logs = {}
  /\ db.seq.prompt_versions > 0 /\ db.prompt_versions = {}

C7Step(d, e, call) ==
  ( /\ IsUpsert(call)
    /\ (Trim(call.input.title) = << >> \/ Trim(call.input.content) = << >>) ) =>
      /\ call.res = "ValidationError"
      /\ e = d

\* C7: create or update with a title or a content that is empty after trimming
\* fails with ValidationError and leaves the database as it was.
C7_ValidationWritesNothing == [][Answered => C7Step(Before, db', last')]_vars

\* An update of an existing prompt was refused for its blank content.
C7_Witness ==
  /\ IsUpdate(last) /\ last.res = "ValidationError"
  /\ HasPrompt(db, last.input.id[1])
  /\ last.input.title = << "t" >>
  /\ last.input.content = << " ", " " >>

RatedLogsOf(d, id) == { u \in LogsOf(d, id) : u.rating # << >> }

RECURSIVE SumRatings(_)
SumRatings(rows) ==
  IF rows = {} THEN 0
  ELSE LET u == CHOOSE r \in rows : TRUE IN u.rating[1] + SumRatings(rows \ {u})

\* score_avg * n = sum, the product taken in double arithmetic
ProductIsSum(p, n, sum) == F64MulInt(p.score_avg, n) = F64OfInt(sum)

\* | score_avg * n - sum | <= tol * 2^-52, the product taken exactly
ProductNearSum(p, n, sum, tol) ==
  LET x  == p.score_avg
      p0 == x[3] * n
      p1 == x[2] * n + p0 \div LimbBase
      p2 == x[1] * n + p1 \div LimbBase
      d2 == p2 - sum * MantissaTop
      m1 == p1 % LimbBase
      m0 == p0 % LimbBase
  IN  \/ d2 = 0 /\ m1 = 0 /\ m0 <= tol
      \/ d2 = -1 /\ m1 = LimbBase - 1 /\ LimbBase - m0 <= tol

\* C8 as claimed: after n rated usages r1..rn of a created prompt, score_count = n
\* and score_avg * n = r1 + ... + rn.
C8_AsClaimed ==
  Quiet => \A p \in db.prompts :
    LET n == Cardinality(RatedLogsOf(db, p.id))
        sum == SumRatings(RatedLogsOf(db, p.id))
    IN  p.score_count = I64OfInt(n) /\ ProductIsSum(p, n, sum)

C8Step(d, e, call) ==
  (IsLog(call) /\ call.res = "Ok" /\ IsSome(call.input.rating)) =>
    LET old == PromptRow(d, call.input.prompt_id)
        new == PromptRow(e, call.input.prompt_id)
        count == old.score_count[3]
    IN  /\ new.score_count = I64OfInt(count + 1)
        /\ new.score_avg = F64DivInt(F64AddInt(F64MulInt(old.score_avg, count),
                                               call.input.rating[1]),
                                     count + 1)

C8Aggregate(d) ==
  \A p \in d.prompts :
    LET n == Cardinality(RatedLogsOf(d, p.id))
        sum == SumRatings(RatedLogsOf(d, p.id))
    IN  /\ p.score_count = I64OfInt(n)
        /\ n <= 6 => ProductIsSum(p, n, sum)
        /\ ProductNearSum(p, n, sum, 4 * n * n)

\* C8, amended: after n rated usages r1..rn of a created prompt, score_count = n;
\* each rated call sets newCount = count + 1 and newAvg = (avg*count + r)/(count+1),
\* every operation rounded to a double; score_avg * n = r1 + ... + rn holds exactly
\* for n <= 6, and within 4 * n^2 * 2^-52 for every n.
C8_Scoring == [][Answered => (C8Step(Before, db', last') /\ C8Aggregate(db'))]_vars

\* Seven ratings after which score_avg * 7, in double arithmetic, is not their sum.
C8_Witness ==
  \E p \in db.prompts :
    /\ p.score_count = I64OfInt(7)
    /\ Cardinality(RatedLogsOf(db, p.id)) = 7
    /\ ~ProductIsSum(p, 7, SumRatings(RatedLogsOf(db, p.id)))

C9Step(d, e, call) ==
  ( /\ IsLog(call) /\ IsSome(call.input.rating)
    /\ (call.input.rating[1] < 1 \/ call.input.rating[1] > 5) ) =>
      /\ call.res = "ValidationError"
      /\ e = d

\* C9: logUsage with a rating outside 1..5 fails with ValidationError and writes
\* nothing: no usage log row, no change of any prompt.
C9_RatingRange == [][Answered => C9Step(Before, db', last')]_vars

\* A rating of 6 for an existing prompt was refused.
C9_Witness ==
  /\ IsLog(last) /\ last.res = "ValidationError"
  /\ last.input.rating = Some(6)
  /\ HasPrompt(db, last.input.prompt_id)

C10Step(d, e, call) ==
  ( /\ IsLog(call) /\ call.input.rating = None
    /\ HasPrompt(d, call.input.prompt_id) ) =>
      /\ call.fail = "-" => call.res = "Ok"
      /\ call.res = "Ok" =>
           /\ e.prompts = d.prompts
           /\ e.prompt_versions = d.prompt_versions
           /\ d.usage_logs \subseteq e.usage_logs
           /\ Cardinality(e.usage_logs \ d.usage_logs) = 1
           /\ \A u \in e.usage_logs \ d.usage_logs :
                u.prompt_id = call.input.prompt_id /\ u.rating = None

\* C10: logUsage without a rating on an existing prompt, with no storage failure
\* and no write of another connection between its begin and its answer,
\* succeeds, appends exactly one usage log row (of that prompt, with no rating)
\* and changes no field of any prompt.
C10_UnratedUsage == [][(Answered /\ RanAlone) => C10Step(Before, db', last')]_vars

\* An unrated usage was logged for a prompt that already carries a score.
C10_Witness ==
  /\ IsLog(last) /\ last.res = "Ok" /\ last.input.rating = None
  /\ HasPrompt(db, last.input.prompt_id)
  /\ PromptRow(db, last.input.prompt_id).score_count = I64OfInt(1)
  /\ \E u \in LogsOf(db, last.input.prompt_id) : u.rating = None

\* C11: every prompt has score_count >= 0, and a prompt with score_count = 0 has
\* score_avg = 0.
C11_ScoreInvariant ==
  \A p \in db.prompts :
    /\ ~I64Negative(p.score_count)
    /\ p.score_count = I64OfInt(0) => p.score_avg = F64OfInt(0)

\* a < b as i64
I64Less(a, b) ==
  \/ a[1] < b[1]
  \/ a[1] = b[1] /\ a[2] < b[2]
  \/ a[1] = b[1] /\ a[2] = b[2] /\ a[3] < b[3]

C12Step(d, e) ==
  \A id \in PromptIds(d) \cap PromptIds(e) :
    /\ VersionsOf(d, id) \subseteq VersionsOf(e, id)
    /\ ~I64Less(PromptRow(e, id).score_count, PromptRow(d, id).score_count)

\* C12: across every step, for a prompt that exists before and after it, every
\* version it had is still there unchanged and its score_count has not decreased.
C12_Monotonic == [][C12Step(db, db')]_vars

IsList(call) == call.op = "list_prompts"

\* The prompts whose decoded tag list holds the value as one of its tags
TaggedExactly(d, value) ==
  { p \in d.prompts : \E i \in 1..Len(decode_tags(p.tags)) : decode_tags(p.tags)[i] = value }

C13Step(e, call) ==
  (IsList(call) /\ IsSome(TrimmedFilter(call.tag))) =>
    { call.rows[i].id : i \in 1..Len(call.rows) } =
      { p.id : p \in { q \in TaggedExactly(e, Trim(call.tag[1])) :
                         IsSome(TrimmedFilter(call.search)) =>
                           SearchMatches(q, Trim(call.search[1])) } }

\* C13: a listing with a tag filter that is not empty after trimming returns exactly
\* the prompts, among those the search lets through, one of whose tags equals the
\* trimmed filter value.
C13_TagFilterExact == [][Answered => C13Step(db', last')]_vars

RECURSIVE ValidItems(_)
ValidItems(items) ==
  IF items = << >> THEN << >>
  ELSE IF Trim(Head(items).title) # << >> /\ Trim(Head(items).content) # << >>
    THEN << Head(items) >> \o ValidItems(Tail(items))
    ELSE ValidItems(Tail(items))

C14Count(call) ==
  (IsImport(call) /\ call.res = "Ok") =>
    call.imported = Len(ValidItems(call.input.prompts))

C14Step(d, e, call) ==
  (IsImport(call) /\ call.res = "Ok") =>
    LET valid == ValidItems(call.input.prompts)
        new_ids == PromptIds(e) \ PromptIds(d)
    IN  /\ call.imported = Len(valid)
        /\ d.prompts \subseteq e.prompts
        /\ new_ids = { d.seq.prompts + i : i \in 1..Len(valid) }
        /\ \A i \in 1..Len(valid) :
             /\ PromptRow(e, d.seq.prompts + i).title = Trim(valid[i].title)
             /\ PromptRow(e, d.seq.prompts + i).content = valid[i].content
        /\ d.prompt_versions \subseteq e.prompt_versions
        /\ \A v \in e.prompt_versions \ d.prompt_versions : v.prompt_id \in new_ids

\* C14: a successful import returns the number of items whose trimmed title and
\* trimmed content are both non-empty, and, when no other connection wrote
\* between its begin and its answer, has created exactly one new prompt for each
\* of them, in order, and no prompt row and no version row for a skipped item.
C14_ImportCount ==
  [][Answered => /\ C14Count(last')
                 /\ RanAlone => C14Step(Before, db', last')]_vars

\* One item with blank content and one valid item were imported: imported = 1.
C14_Witness ==
  /\ IsImport(last) /\ last.res = "Ok"
  /\ last.input.prompts = << ItemNoContent, ItemRated >>
  /\ last.imported = 1
  /\ db.prompts # {}

\* The versions of an item, an absent list taken as empty
SuppliedVersions(item) == UnwrapOr(item.versions, << >>)

RECURSIVE KeptContents(_, _)
KeptContents(versions, trims) ==
  IF versions = << >> THEN << >>
  ELSE LET c == Head(versions).content
           rest == KeptContents(Tail(versions), trims)
       IN  IF (IF trims THEN Trim(c) ELSE c) # << >> THEN << c >> \o rest ELSE rest

\* The versions of the i-th valid item of an import, in the order of their ids
ImportedVersions(d, e, i) ==
  LET rows == VersionsOf(e, d.seq.prompts + i)
      ids == { v.id : v \in rows }
      Nth(k) == CHOOSE v \in rows : Cardinality({ j \in ids : j <= v.id }) = k
  IN  [ k \in 1..Cardinality(rows) |-> Nth(k) ]

C15Holds(d, e, call, trims) ==
  (IsImport(call) /\ call.res = "Ok") =>
    LET valid == ValidItems(call.input.prompts) IN
    \A i \in 1..Len(valid) :
      LET kept == KeptContents(SuppliedVersions(valid[i]), trims)
          got == ImportedVersions(d, e, i)
      IN  IF Len(kept) >= 1
            THEN Len(got) = Len(kept)
            ELSE /\ Len(got) = 1
                 /\ got[1].content = valid[i].content
                 /\ got[1].change_note = Imported

\* The versions made from supplied versions carry their contents, in the order
\* supplied, lowest id first.
C15Contents(d, e, call) ==
  (IsImport(call) /\ call.res = "Ok") =>
    LET valid == ValidItems(call.input.prompts) IN
    \A i \in 1..Len(valid) :
      LET kept == KeptContents(SuppliedVersions(valid[i]), TRUE)
          got == ImportedVersions(d, e, i)
      IN  Len(kept) >= 1 => [ k \in 1..Len(got) |-> got[k].content ] = kept

\* C15 as claimed: a prompt created by an import that ran alone has one version
\* per supplied version whose content is not the empty string, and the single
\* version "imported" with the prompt's content if there is none.
C15_AsClaimed == [][(Answered /\ RanAlone) => C15Holds(Before, db', last', FALSE)]_vars

\* C15, amended: a prompt created by an import that ran alone (no write of
\* another connection between its begin and its answer) has one version per
\* supplied version whose content is non-empty after trimming, with that content,
\* in the order supplied; if there is none (no versions, an empty list, or only
\* blank ones) it has exactly one version, with the prompt's own content and the
\* note "imported".
C15_ImportedVersions ==
  [][(Answered /\ RanAlone) => (C15Holds(Before, db', last', TRUE) /\ C15Contents(Before, db', last'))]_vars

\* An import has made a prompt from an item with one blank and one real version:
\* the prompt has the real version only.
C15_Witness ==
  /\ IsImport(last) /\ last.res = "Ok"
  /\ last.input.prompts = << ItemMixedVersions >>
  /\ \E p \in db.prompts :
       /\ p.id = db.seq.prompts
       /\ NumVersions(db, p.id) = 1
       /\ \A v \in VersionsOf(db, p.id) :
            v.content = << "b" >> /\ v.change_note = ImportedVersion

C16Claimed(d, e, call) ==
  (IsUpdate(call) /\ call.fail = "-" /\ ~HasPrompt(d, call.input.id[1])) =>
    /\ call.res = "NotFoundError"
    /\ e = d

\* C16 as claimed: an update with an id that does not exist, with no storage
\* failure and no write of another connection meanwhile, fails with NotFoundError and leaves the database as it was.
C16_AsClaimed == [][(Answered /\ RanAlone) => C16Claimed(Before, db', last')]_vars

C16Amended(d, e, call) ==
  (IsUpdate(call) /\ call.fail = "-" /\ ~HasPrompt(d, call.input.id[1])) =>
    /\ call.res = (IF ValidPrompt(call.input.title, call.input.content)
                     THEN "NotFoundError" ELSE "ValidationError")
    /\ e = d

\* C16, amended: an update with an id that does not exist, with no storage failure
\* and no write of another connection between its begin and its answer,
\* leaves the database as it was and fails: with NotFoundError if its title and
\* content are non-empty after trimming, with ValidationError otherwise.
C16_UpdateMissing == [][(Answered /\ RanAlone) => C16Amended(Before, db', last')]_vars

\* An update of the missing id 2 was refused with NotFoundError while prompt 1 exists.
C16_Witness ==
  /\ IsUpdate(last) /\ last.res = "NotFoundError"
  /\ last.input.id = Some(2)
  /\ HasPrompt(db, 1) /\ ~HasPrompt(db, 2)

\* The version a call has appended, if it has appended one
AppendedVersions(d, e) == { v \in e.prompt_versions : v.id > d.seq.prompt_versions }

DefaultNote(call) == IF IsSome(call.input.id) THEN ContentUpdated ELSE InitialVersion

C17Holds(d, e, call, trims) ==
  (IsUpsert(call) /\ call.res = "Ok") =>
    \A v \in AppendedVersions(d, e) :
      LET supplied == UnwrapOr(call.input.change_note, << >>)
          note == IF trims THEN Trim(supplied) ELSE supplied
      IN  v.change_note = (IF note # << >> THEN note ELSE DefaultNote(call))

\* C17 as claimed: the version appended by a create or an update that ran alone carries the
\* supplied note if one was supplied and is not empty, and otherwise "initial
\* version" for a create and "content updated" for an update.
C17_AsClaimed == [][(Answered /\ RanAlone) => C17Holds(Before, db', last', FALSE)]_vars

\* C17, amended: the version appended by a create or an update that ran alone (no
\* write of another connection between its begin and its answer) carries the supplied
\* note with surrounding white space trimmed off, if that is not empty, and
\* otherwise (no note, or a blank one) "initial version" for a create and
\* "content updated" for an update.
C17_VersionNotes == [][(Answered /\ RanAlone) => C17Holds(Before, db', last', TRUE)]_vars

\* A create with the note " n" has stored a version with the note "n", and an
\* update without a note one with the note "content updated".
C17_Witness ==
  /\ IsUpdate(last) /\ last.res = "Ok" /\ last.input.change_note = None
  /\ \E v \in db.prompt_versions :
       v.change_note = ContentUpdated /\ v.id = db.seq.prompt_versions
  /\ \E v \in db.prompt_versions : v.change_note = << "n" >> /\ v.id = 1

\* Letters compared without regard to case, spelled out for the model's alphabet
SameIgnoringCase(a, b) ==
  /\ Len(a) = Len(b)
  /\ \A i \in 1..Len(a) :
       \/ a[i] = b[i]
       \/ { a[i], b[i] } \in { { "A", "a" }, { "B", "b" } }

Untrimmed(tag) == tag = << >> \/ Head(tag) = " " \/ tag[Len(tag)] = " "

\* Strip the spaces at both ends, written without the model's Trim
Stripped(tag) ==
  IF \A i \in 1..Len(tag) : tag[i] = " " THEN << >>
  ELSE LET first == CHOOSE i \in 1..Len(tag) :
                      tag[i] # " " /\ \A j \in 1..(i - 1) : tag[j] = " "
           final == CHOOSE i \in 1..Len(tag) :
                      tag[i] # " " /\ \A j \in (i + 1)..Len(tag) : tag[j] = " "
       IN  SubSeq(tag, first, final)

\* The positions of x whose entry is kept: not blank, and not seen before ignoring case
KeptAt(x) ==
  { i \in 1..Len(x) :
      /\ Stripped(x[i]) # << >>
      /\ \A j \in 1..(i - 1) : ~SameIgnoringCase(Stripped(x[j]), Stripped(x[i])) }

\* The first-seen spellings of x in first-seen order
FirstSeen(x) ==
  LET kept == KeptAt(x)
      Nth(k) == CHOOSE i \in kept : Cardinality({ j \in kept : j <= i }) = k
  IN  [ k \in 1..Cardinality(kept) |-> Stripped(x[Nth(k)]) ]

\* C18: for every list x, normalize(normalize(x)) = normalize(x); normalize(x) has
\* no empty or untrimmed entry and no two entries equal ignoring case; its entries
\* are the first-seen spellings of x in first-seen order; and
\* normalize(["A", " a ", "b"]) = ["A", "b"].
C18_NormalizeIdempotent ==
  last.op = "normalize_tags" =>
    LET x == last.input
        y == last.res
    IN  /\ normalize_tags(y) = y
        /\ \A i \in 1..Len(y) : ~Untrimmed(y[i])
        /\ \A i, j \in 1..Len(y) : i # j => ~SameIgnoringCase(y[i], y[j])
        /\ y = FirstSeen(x)
        /\ x = << << "A" >>, << " ", "a", " " >>, << "b" >> >> => y = << << "A" >>, << "b" >> >>

\* normalize_tags has been applied to ["A", " a ", "b"].
C18_Witness ==
  /\ last.op = "normalize_tags"
  /\ last.input = << << "A" >>, << " ", "a", " " >>, << "b" >> >>
  /\ last.res = << << "A" >>, << "b" >> >>

\* C19: in every state in which every call made has returned, with or without an
\* error, every prompt has at least one version.
C19_EveryPromptHasVersion == Quiet => \A p \in db.prompts : VersionsOf(db, p.id) # {}

\* C20: when two rated logUsage calls on prompt 1 (score_count 0 and no usage log
\* before them) have both returned, however their statements interleaved with
\* each other, score_count is 2 and equals the number of rated usage logs of the
\* prompt.  No storage call fails here and the prompt is not deleted, so a
\* logUsage call that has returned has returned successfully, and the prompt has
\* two rated usage logs exactly when two such calls were made.
C20_NoLostRating ==
  (Quiet /\ Cardinality(RatedLogsOf(db, 1)) = 2) =>
    /\ PromptRow(db, 1).score_count = I64OfInt(2)
    /\ PromptRow(db, 1).score_count = I64OfInt(Cardinality(RatedLogsOf(db, 1)))

\* The version of a prompt that has the highest id
LatestVersion(d, id) ==
  CHOOSE v \in VersionsOf(d, id) : \A w \in VersionsOf(d, id) : w.id <= v.id

LatestIsContent(d, id) ==
  /\ VersionsOf(d, id) # {}
  /\ LatestVersion(d, id).content = PromptRow(d, id).content

C21Step(d, e, call) ==
  /\ (IsUpsert(call) /\ ~IsSome(call.input.id) /\ call.res = "Ok") =>
       /\ ~HasPrompt(d, LastPromptId(e))
       /\ HasPrompt(e, LastPromptId(e))
       /\ LatestIsContent(e, LastPromptId(e))
  /\ ((IsUpdate(call) \/ IsLog(call)) /\ call.res = "Ok") =>
       \A id \in PromptIds(d) :
         LatestIsContent(d, id) => (HasPrompt(e, id) /\ LatestIsContent(e, id))

\* C21: the prompt a successful create has made has a version, and its version with
\* the highest id has the prompt's stored content; every successful update and
\* every successful logUsage, run from its first statement to its return with no
\* write of another connection in between, keeps
\* that true of every prompt of which it was true before the call.  So it is true
\* of every prompt made by create and changed since by such calls only.
C21_LatestVersionIsContent == [][(Answered /\ RanAlone) => C21Step(Before, db', last')]_vars

\* Prompt 1 was created with content "a" and then updated to content "b" without
\* a note: its two versions are "a" and, with the higher id, "b", the stored content.
C21_Witness ==
  /\ IsUpdate(last) /\ last.res = "Ok" /\ last.input.id = Some(1)
  /\ last.input.content = << "b" >> /\ last.input.change_note = None
  /\ HasPrompt(db, 1) /\ PromptRow(db, 1).content = << "b" >>
  /\ NumVersions(db, 1) = 2
  /\ LatestVersion(db, 1).content = << "b" >>
  /\ \E v \in VersionsOf(db, 1) : v.id < LatestVersion(db, 1).id /\ v.content = << "a" >>

====
